---------------------------- MODULE Spec2Model ----------------------------
(***************************************************************************)
(* Model of octodash's status aggregation: Handler.handleStatus fans out   *)
(* one goroutine per configured printer, each running                      *)
(* Handler.fetchPrinterStatus against the printer's OctoPrint client and   *)
(* the Spoolman client, and collects the records from a buffered channel.  *)
(*                                                                         *)
(* Go strings that are built or taken apart by the code (error messages,   *)
(* file paths, URLs) are sequences of tokens, the empty string being <<>>. *)
(* A nil pointer is Nil (<<>>) and a non-nil pointer to x is Some(x).      *)
(***************************************************************************)
EXTENDS Integers, Sequences, FiniteSets, TLC

\* ------------------------------------------------------------------------
\* Bounds
\* ------------------------------------------------------------------------

\* number of printers in the loaded configuration
NumPrinters == 2

\* number of extensions a job file path ends with, at most
MaxExtensions == 2

\* ------------------------------------------------------------------------
\* Values
\* ------------------------------------------------------------------------

Nil == <<>>

Some(x) == <<x>>

EmptyString == <<>>

\* config.Config.Printers: the ordered printer list of the configuration
ConfigPrinters ==
    [i \in 1..NumPrinters |->
        [ID |-> i, Name |-> <<"Printer ", i>>, OctoPrintURL |-> <<"http://octoprint-", i>>]]

PrinterIDs == {ConfigPrinters[i].ID : i \in 1..NumPrinters}

\* the printer of the configuration with the given id
PrinterOf(id) == CHOOSE p \in {ConfigPrinters[i] : i \in 1..NumPrinters} : p.ID = id

\* octoprint.Client: the client NewClient builds for a printer
NewClient(baseURL) == [baseURL |-> baseURL]

\* the client mapping NewHandler builds: one client per configured printer
NewHandler ==
    [id \in PrinterIDs |-> NewClient(PrinterOf(id).OctoPrintURL)]

\* ------------------------------------------------------------------------
\* Upstream HTTP responses
\* ------------------------------------------------------------------------

\* a body that is not the JSON the caller decodes into its result
Malformed == [malformed |-> TRUE]

\* the body of an error page
ErrorPage == [raw |-> "Internal Server Error"]

\* httpClient.Do failed: connection refused, timeout after 10 s, ...
TransportFailure == [arrived |-> FALSE, code |-> 0, body |-> Malformed]

\* the responses an upstream can give to one request whose well-formed
\* bodies are `bodies`: no response, an error status, a success status
\* with a body that does not decode, a success status with a body
HTTPResponses(bodies) ==
    {TransportFailure,
     [arrived |-> TRUE, code |-> 500, body |-> ErrorPage],
     [arrived |-> TRUE, code |-> 200, body |-> Malformed]} \cup
    [arrived : {TRUE}, code : {200}, body : bodies]

NoError == <<>>

\* the outcome of a client call: the error (NoError for nil) and the result
Result(err, val) == [err |-> err, val |-> val]

NotCalled == [notCalled |-> TRUE]

\* Client.doRequest: transport error, then status >= 400, then JSON decode
doRequest(resp) ==
    IF ~resp.arrived
    THEN Result(<<"Get: connection refused">>, Nil)
    ELSE IF resp.code >= 400
    THEN Result(<<"HTTP ", resp.code, ": ", resp.body>>, Nil)
    ELSE IF resp.body \in {Malformed, ErrorPage}
    THEN Result(<<"invalid character">>, Nil)
    ELSE Result(NoError, resp.body)

\* ------------------------------------------------------------------------
\* Response bodies of the three OctoPrint endpoints and of Spoolman
\* ------------------------------------------------------------------------

StateTexts == {"Operational"}

TemperatureReadings ==
    {[Bed |-> [Actual |-> 59, Target |-> 60], Tool0 |-> [Actual |-> 214, Target |-> 215]]}

\* octoprint.PrinterResponse, the fields the handler reads
PrinterResponses ==
    [State : [Text : StateTexts,
              Flags : [Printing : BOOLEAN, Ready : BOOLEAN, Error : BOOLEAN]],
     Temperature : TemperatureReadings]

\* job file paths, as sequences of characters
JobPaths == {<<>>, <<"a", ".", "g", "c", "o", "d", "e">>}

\* octoprint.JobResponse, the fields the handler reads; EstimatedPrintTime
\* is a float64, held in tenths of a second
JobResponses ==
    [Job : [File : [Path : JobPaths, Display : {"a.gcode"}],
            EstimatedPrintTime : {36007},
            Filament : {[Tool0 |-> [Length |-> 1200]]}],
     Progress : {[Completion |-> 42, PrintTime |-> 1500, PrintTimeLeft |-> 2100]}]

\* the anonymous response struct of GetCurrentSpool
SpoolIDResponses ==
    {[Success |-> TRUE,  SpoolID |-> "7", Error |-> ""],
     [Success |-> TRUE,  SpoolID |-> "",  Error |-> ""],
     [Success |-> FALSE, SpoolID |-> "7", Error |-> "no spool"]}

\* spoolman.Spool
Spools == {[Name |-> "PLA Black", Material |-> "PLA", RemainingWeight |-> 800]}

\* ------------------------------------------------------------------------
\* What the upstreams answer.  The OctoPrint of the first configured
\* printer, and Spoolman when asked on its behalf, may give any response;
\* for the other printers the responses are a sample of them: a failure
\* and one or two successes per call.
\* ------------------------------------------------------------------------

\* a success response with the given body
OK(body) == [arrived |-> TRUE, code |-> 200, body |-> body]

\* the printer whose upstream responses are not sampled
Thorough(id) == id = ConfigPrinters[1].ID

\* responses to GET /api/printer
StateAnswers(id) ==
    IF Thorough(id)
    THEN HTTPResponses(PrinterResponses)
    ELSE {TransportFailure} \cup
         {OK(r) : r \in {q \in PrinterResponses :
                            /\ q.State.Flags.Printing # q.State.Flags.Ready
                            /\ q.State.Flags.Error = q.State.Flags.Printing}}

\* responses to GET /api/job
JobAnswers(id) ==
    IF Thorough(id)
    THEN HTTPResponses(JobResponses)
    ELSE {[arrived |-> TRUE, code |-> 500, body |-> ErrorPage]} \cup
         {OK(j) : j \in {q \in JobResponses : q.Job.File.Path # EmptyString}}

\* responses to POST /api/plugin/spoolman_api
SpoolIDAnswers(id) ==
    IF Thorough(id)
    THEN HTTPResponses(SpoolIDResponses)
    ELSE {TransportFailure} \cup
         {OK(r) : r \in {q \in SpoolIDResponses : q.Success /\ q.SpoolID # ""}}

\* responses of Spoolman to the spool lookup
SpoolAnswers(id) ==
    IF Thorough(id)
    THEN HTTPResponses(Spools)
    ELSE {OK(Malformed)} \cup {OK(sp) : sp \in Spools}

\* ------------------------------------------------------------------------
\* octoprint.Client
\* ------------------------------------------------------------------------

\* Client.GetPrinterState: one GET /api/printer
GetPrinterState(resp) == doRequest(resp)

\* Client.GetJob: one GET /api/job
GetJob(resp) == doRequest(resp)

\* a GetCurrentSpool that does not look at the success flag
GetCurrentSpoolIgnoringRefusal(resp) ==
    LET r == doRequest(resp) IN
    IF r.err # NoError
    THEN Result(r.err, "")
    ELSE Result(NoError, r.val.SpoolID)

\* Client.GetCurrentSpool: one POST /api/plugin/spoolman_api
GetCurrentSpool(resp) ==
    LET r == doRequest(resp) IN
    IF r.err # NoError
    THEN Result(r.err, "")
    ELSE IF ~r.val.Success
    THEN Result(<<"API error: ", r.val.Error>>, "")
    ELSE Result(NoError, r.val.SpoolID)

\* strings.HasSuffix
HasSuffix(s, suffix) ==
    /\ Len(s) >= Len(suffix)
    /\ SubSeq(s, Len(s) - Len(suffix) + 1, Len(s)) = suffix

\* strings.TrimSuffix
TrimSuffix(s, suffix) ==
    IF HasSuffix(s, suffix) THEN SubSeq(s, 1, Len(s) - Len(suffix)) ELSE s

Gcode == <<".", "g", "c", "o", "d", "e">>

Bgcode == <<".", "b", "g", "c", "o", "d", "e">>

\* Client.GetThumbnail
GetThumbnail(client, path) ==
    IF path = EmptyString
    THEN EmptyString
    ELSE client.baseURL \o <<"/plugin/prusaslicerthumbnails/thumbnail/">>
            \o TrimSuffix(TrimSuffix(path, Gcode), Bgcode) \o <<".", "p", "n", "g">>

\* ------------------------------------------------------------------------
\* spoolman.Client
\* ------------------------------------------------------------------------

\* Client.GetSpool: one request to the inventory service; an error or a spool
GetSpool(resp) ==
    LET r == doRequest(resp) IN
    IF r.err # NoError THEN Result(r.err, Nil) ELSE Result(NoError, Some(r.val))

\* spoolman.FormatSpoolInfo: the spool as the record's key/value mapping
FormatSpoolInfo(spool) ==
    [name |-> spool.Name, material |-> spool.Material,
     remaining_weight |-> spool.RemainingWeight]

\* Go's int(float64): truncation toward zero, on a value held in tenths
IntOfFloat(tenths) ==
    IF tenths >= 0 THEN tenths \div 10 ELSE -((-tenths) \div 10)

\* ------------------------------------------------------------------------
\* State
\* ------------------------------------------------------------------------

VARIABLES
    octoprintClients,  \* Handler.octoprintClients: printer id -> client
    hpc,               \* position of handleStatus: "loop", "wait", "done"
    launched,          \* number of iterations of the launch loop completed
    wg,                \* the WaitGroup counter
    statusChan,        \* the buffered channel, as the sequence of queued records
    pc,                \* position of the goroutine of each printer
    status,            \* fetchPrinterStatus's `status`, per goroutine
    printerResp,       \* fetchPrinterStatus's `printerResp, err`, while it runs
    requests,          \* number of requests of each kind issued in this poll
    outcome,           \* how each upstream call of this poll ended
    response,          \* the body written to the ResponseWriter, Nil before
    answers,           \* the responses each upstream may give, per printer and call
    other,             \* the other invocation of handleStatus in progress, if any
    sequel,            \* this invocation began after the other one had responded
    arg,               \* the argument of a client method called on its own
    ret,               \* what that call returned, Nil before
    thisPrinters       \* app.js: the dashboard's `this.printers`

vars == <<octoprintClients, hpc, launched, wg, statusChan, pc, status,
          printerResp, requests, outcome, response, answers, other, sequel,
          arg, ret, thisPrinters>>

\* what no step of an invocation touches: the upstreams' repertoire and the
\* other invocation's frame
env == <<answers, other, sequel, arg, ret, thisPrinters>>

Kinds == {"state", "job", "spool", "inventory"}

\* a channel with room for one record fewer than there are printers
ChanCapOneShort == Len(ConfigPrinters) - 1

\* cap(statusChan) = len(h.config.Printers)
ChanCap == Len(ConfigPrinters)

\* an initial record whose status is left at the zero value of a Go string
NewStatusZero(printer) ==
    [ID |-> printer.ID, Name |-> printer.Name, OctoPrintURL |-> printer.OctoPrintURL,
     Status |-> "", State |-> "", Progress |-> Nil, Temperatures |-> Nil,
     CurrentSpool |-> Nil, ThumbnailURL |-> EmptyString, Error |-> EmptyString]

\* fetchPrinterStatus's initial record
NewStatus(printer) ==
    [ID |-> printer.ID, Name |-> printer.Name, OctoPrintURL |-> printer.OctoPrintURL,
     Status |-> "offline", State |-> "", Progress |-> Nil, Temperatures |-> Nil,
     CurrentSpool |-> Nil, ThumbnailURL |-> EmptyString, Error |-> EmptyString]

\* a classification that tests the error flag first
ClassifyErrorFirst(flags, current) ==
    IF flags.Error THEN "error"
    ELSE IF flags.Printing THEN "printing"
    ELSE IF flags.Ready THEN "idle"
    ELSE current

\* the "Set basic status" chain of fetchPrinterStatus
Classify(flags, current) ==
    IF flags.Printing THEN "printing"
    ELSE IF flags.Ready THEN "idle"
    ELSE IF flags.Error THEN "error"
    ELSE current

\* models.TemperatureInfo built from the printer response
TemperatureInfo(r) ==
    [BedActual |-> r.Temperature.Bed.Actual, BedTarget |-> r.Temperature.Bed.Target,
     HotendActual |-> r.Temperature.Tool0.Actual, HotendTarget |-> r.Temperature.Tool0.Target]

\* models.ProgressInfo built from the job response
ProgressInfo(j) ==
    [Completion |-> j.Progress.Completion, PrintTime |-> j.Progress.PrintTime,
     PrintTimeLeft |-> j.Progress.PrintTimeLeft,
     EstimatedTotal |-> IntOfFloat(j.Job.EstimatedPrintTime),
     FileName |-> j.Job.File.Display, FilamentLength |-> j.Job.Filament.Tool0.Length]

\* the call of the given kind returned r to the goroutine of printer id
Returned(id, kind, r) ==
    outcome' = [outcome EXCEPT ![id][kind] = IF r.err = NoError THEN "ok" ELSE "failed"]

InitPoll ==
    /\ hpc = "loop"
    /\ launched = 0
    /\ wg = 0
    /\ statusChan = <<>>
    /\ pc = [id \in PrinterIDs |-> "none"]
    /\ status = [id \in PrinterIDs |-> Nil]
    /\ printerResp = [id \in PrinterIDs |-> NotCalled]
    /\ requests = [id \in PrinterIDs |-> [k \in Kinds |-> 0]]
    /\ outcome = [id \in PrinterIDs |-> [k \in Kinds |-> "none"]]
    /\ response = Nil

\* upstreams that may give any of the responses above
AnyAnswers ==
    [id \in PrinterIDs |->
        [state |-> StateAnswers(id), job |-> JobAnswers(id),
         spool |-> SpoolIDAnswers(id), inventory |-> SpoolAnswers(id)]]

\* one invocation of handleStatus, and no other
InitAlone ==
    /\ InitPoll
    /\ other = Nil
    /\ sequel = FALSE
    /\ arg = Nil
    /\ ret = Nil
    /\ thisPrinters = <<>>

\* the handler as NewHandler builds it, receiving one GET /api/status
Init ==
    /\ octoprintClients = NewHandler
    /\ answers = AnyAnswers
    /\ InitAlone

\* ------------------------------------------------------------------------
\* handleStatus
\* ------------------------------------------------------------------------

\* a loop that calls fetchPrinterStatus itself: the next iteration begins
\* once the pipeline of the previous one has delivered its record
LoopReadySequential ==
    /\ hpc = "loop"
    /\ launched < Len(ConfigPrinters)
    /\ \A id \in PrinterIDs : pc[id] \in {"none", "done"}

\* the `for _, printer := range h.config.Printers` loop has an iteration
\* left: the `go` statement returns at once, so nothing else is waited for
LoopReady ==
    /\ hpc = "loop"
    /\ launched < Len(ConfigPrinters)

\* one iteration of the launch loop: wg.Add(1); go func(p) {...}(printer)
Launch ==
    /\ LoopReady
    /\ LET printer == ConfigPrinters[launched + 1] IN
        /\ wg' = wg + 1
        /\ pc' = [pc EXCEPT ![printer.ID] = "start"]
        /\ launched' = launched + 1
    /\ UNCHANGED <<env, octoprintClients, hpc, statusChan, status, printerResp, requests,
                   outcome, response>>

\* the loop is over: the handler reaches wg.Wait()
EndLoop ==
    /\ hpc = "loop"
    /\ launched = Len(ConfigPrinters)
    /\ hpc' = "wait"
    /\ UNCHANGED <<env, octoprintClients, launched, wg, statusChan, pc, status, printerResp,
                   requests, outcome, response>>

\* a wait that returns while one goroutine is still running
WaitOverEarly == wg <= 1

\* wg.Wait() lets the handler go on
WaitOver == wg = 0

\* a collecting loop that misses the first queued record
CollectResultsSkipFirst(chan) == Tail(chan)

\* the `for status := range statusChan` loop over the closed channel:
\* the queued records, appended in the order they were sent
CollectResults(chan) == chan

\* a response whose top-level status reports the failures of the records
ResponseBodyReportingErrors(printers) ==
    [status |-> IF \E j \in 1..Len(printers) : printers[j].Error # EmptyString
                THEN "error" ELSE "ok",
     printers |-> printers]

\* the map handed to json.NewEncoder(w).Encode
ResponseBody(printers) == [status |-> "ok", printers |-> printers]

\* wg.Wait() returns; close(statusChan); collect; encode the response
Respond ==
    /\ hpc = "wait"
    /\ WaitOver
    /\ response' = Some(ResponseBody(CollectResults(statusChan)))
    /\ statusChan' = <<>>
    /\ hpc' = "done"
    /\ UNCHANGED <<env, octoprintClients, launched, wg, pc, status, printerResp, requests,
                   outcome>>

\* ------------------------------------------------------------------------
\* fetchPrinterStatus, one goroutine per printer
\* ------------------------------------------------------------------------

\* a pipeline that sends the spool-identifier request along with the state
\* request, to have its response at hand later
GotoPrefetching(id, next) ==
    /\ pc' = [pc EXCEPT ![id] = next]
    /\ requests' = IF next = "state"
                   THEN [requests EXCEPT ![id]["state"] = @ + 1, ![id]["spool"] = @ + 1]
                   ELSE IF next \in Kinds \ {"spool"}
                   THEN [requests EXCEPT ![id][next] = @ + 1]
                   ELSE requests

\* the goroutine of printer id moves to position next: a position named
\* after an upstream call issues that request; at "send" fetchPrinterStatus
\* has returned and its locals are gone
Goto(id, next) ==
    /\ pc' = [pc EXCEPT ![id] = next]
    /\ requests' = IF next \in Kinds
                   THEN [requests EXCEPT ![id][next] = @ + 1]
                   ELSE requests

\* a missing-client path that returns the bare initial record
NoClientStatusSilent(st) == st

\* the record returned when the printer has no client
NoClientStatus(st) == [st EXCEPT !.Error = <<"No client configured">>]

\* a goroutine that reads the loop variable instead of its parameter: it
\* sees the printer of the latest iteration of the launch loop
ParamLoopVariable(id) == ConfigPrinters[launched]

\* the parameter p of the goroutine launched for printer id: the value the
\* loop variable had when the `go` statement ran
Param(id) == PrinterOf(id)

\* the goroutine starts: build the record, look the client up, and either
\* return the "No client configured" record or issue the state request
Start(id) ==
    /\ pc[id] = "start"
    /\ LET st == NewStatus(Param(id)) IN
        IF id \notin DOMAIN octoprintClients
        THEN /\ status' = [status EXCEPT ![id] = NoClientStatus(st)]
             /\ Goto(id, "send")
        ELSE /\ status' = [status EXCEPT ![id] = st]
             /\ Goto(id, "state")
    /\ UNCHANGED <<env, octoprintClients, hpc, launched, wg, statusChan, printerResp, outcome,
                   response>>

\* a failure path that forgets the error message
StateFailedStatusNoError(st, err) == st

\* the record returned when GetPrinterState failed with err
StateFailedStatus(st, err) == [st EXCEPT !.Error = err]

\* a state block that leaves the temperatures out
WithStateWithoutTemperatures(st, r) ==
    [st EXCEPT !.Status = Classify(r.State.Flags, st.Status),
               !.State = r.State.Text]

\* the record after a successful state fetch: status, state text, temperatures
WithState(st, r) ==
    [st EXCEPT !.Status = Classify(r.State.Flags, st.Status),
               !.State = r.State.Text,
               !.Temperatures = Some(TemperatureInfo(r))]

\* a job fetch for every printer that is not offline
WantsJobUnlessOffline(st) == st.Status # "offline"

\* the "If printing, fetch job info" test
WantsJob(st) == st.Status = "printing"

\* a pipeline that goes on after a failed state fetch
AfterStateNoShortCircuit(st, failed) ==
    IF WantsJob(st) THEN "job" ELSE "spool"

\* where fetchPrinterStatus goes once GetPrinterState has returned: back to
\* the caller on an error, else to GetJob if printing, else to GetCurrentSpool
AfterState(st, failed) ==
    IF failed THEN "send"
    ELSE IF WantsJob(st) THEN "job"
    ELSE "spool"

\* GetPrinterState returns
StateReturn(id) ==
    /\ pc[id] = "state"
    /\ \E resp \in answers[id].state :
        LET r == GetPrinterState(resp)
            failed == r.err # NoError
            st == IF failed
                  THEN StateFailedStatus(status[id], r.err)
                  ELSE WithState(status[id], r.val)
        IN  /\ Returned(id, "state", r)
            /\ printerResp' = IF failed THEN printerResp
                              ELSE [printerResp EXCEPT ![id] = r.val]
            /\ status' = [status EXCEPT ![id] = st]
            /\ Goto(id, AfterState(st, failed))
    /\ UNCHANGED <<env, octoprintClients, hpc, launched, wg, statusChan, response>>

\* a job failure handled like a state failure
WithJobFailureOffline(st, client, r) ==
    IF r.err = NoError
    THEN [st EXCEPT !.Progress = Some(ProgressInfo(r.val)),
                    !.ThumbnailURL = IF r.val.Job.File.Path # EmptyString
                                     THEN GetThumbnail(client, r.val.Job.File.Path)
                                     ELSE @]
    ELSE [st EXCEPT !.Status = "offline", !.Error = r.err]

\* a job block that reports the failure of the job fetch in the record
WithJobFailureReported(st, client, r) ==
    IF r.err = NoError
    THEN [st EXCEPT !.Progress = Some(ProgressInfo(r.val)),
                    !.ThumbnailURL = IF r.val.Job.File.Path # EmptyString
                                     THEN GetThumbnail(client, r.val.Job.File.Path)
                                     ELSE @]
    ELSE [st EXCEPT !.Error = r.err]

\* the record after GetJob returned r
WithJob(st, client, r) ==
    IF r.err = NoError
    THEN [st EXCEPT !.Progress = Some(ProgressInfo(r.val)),
                    !.ThumbnailURL = IF r.val.Job.File.Path # EmptyString
                                     THEN GetThumbnail(client, r.val.Job.File.Path)
                                     ELSE @]
    ELSE st

\* a pipeline that returns its record when the job fetch failed
AfterJobFailureReturns(r) == IF r.err # NoError THEN "send" ELSE "spool"

\* where fetchPrinterStatus goes once GetJob has returned: the "Get current
\* spool" block follows the "If printing" block whatever GetJob returned
AfterJob(r) == "spool"

\* GetJob returns; the goroutine goes on to GetCurrentSpool(0)
JobReturn(id) ==
    /\ pc[id] = "job"
    /\ \E resp \in answers[id].job :
        LET r == GetJob(resp) IN
        /\ Returned(id, "job", r)
        /\ status' = [status EXCEPT ![id] = WithJob(@, octoprintClients[id], r)]
        /\ Goto(id, AfterJob(r))
    /\ UNCHANGED <<env, octoprintClients, hpc, launched, wg, statusChan, printerResp, response>>

\* a test that looks the spool up whenever the identifier fetch succeeded
WantsSpoolEvenEmpty(r) == r.err = NoError

\* the `err == nil && spoolID != ""` test
WantsSpool(r) == r.err = NoError /\ r.val # ""

\* a pipeline that asks for the spool identifier again when the call failed
AfterSpoolRetry(r) ==
    IF r.err # NoError THEN "spool"
    ELSE IF WantsSpool(r) THEN "inventory" ELSE "send"

\* where fetchPrinterStatus goes once GetCurrentSpool has returned
AfterSpool(r) == IF WantsSpool(r) THEN "inventory" ELSE "send"

\* GetCurrentSpool returns: look the spool up, or return the record
SpoolReturn(id) ==
    /\ pc[id] = "spool"
    /\ \E resp \in answers[id].spool :
        LET r == GetCurrentSpool(resp) IN
        /\ Returned(id, "spool", r)
        /\ Goto(id, AfterSpool(r))
        /\ printerResp' = IF AfterSpool(r) = "send"
                          THEN [printerResp EXCEPT ![id] = NotCalled]
                          ELSE printerResp
    /\ UNCHANGED <<env, octoprintClients, hpc, launched, wg, statusChan, status, response>>

\* an inventory failure that reports its error in the record
WithSpoolFailureReported(st, r) ==
    IF r.err = NoError /\ r.val # Nil
    THEN [st EXCEPT !.CurrentSpool = Some(FormatSpoolInfo(r.val[1]))]
    ELSE [st EXCEPT !.Error = r.err]

\* the record after GetSpool returned r
WithSpool(st, r) ==
    IF r.err = NoError /\ r.val # Nil
    THEN [st EXCEPT !.CurrentSpool = Some(FormatSpoolInfo(r.val[1]))]
    ELSE st

\* spoolmanClient.GetSpool returns, and fetchPrinterStatus with it
InventoryReturn(id) ==
    /\ pc[id] = "inventory"
    /\ \E resp \in answers[id].inventory :
        LET r == GetSpool(resp) IN
        /\ Returned(id, "inventory", r)
        /\ status' = [status EXCEPT ![id] = WithSpool(@, r)]
    /\ Goto(id, "send")
    /\ printerResp' = [printerResp EXCEPT ![id] = NotCalled]
    /\ UNCHANGED <<env, octoprintClients, hpc, launched, wg, statusChan, response>>

\* a goroutine that ends without telling the wait group
DoneForgotten(n) == n

\* the deferred wg.Done()
Done(n) == n - 1

\* the goroutine ends: statusChan <- status, which blocks while the channel
\* is full, then the deferred wg.Done()
Send(id) ==
    /\ pc[id] = "send"
    /\ Len(statusChan) < ChanCap
    /\ statusChan' = Append(statusChan, status[id])
    /\ wg' = Done(wg)
    /\ pc' = [pc EXCEPT ![id] = "done"]
    /\ UNCHANGED <<env, octoprintClients, hpc, launched, status, printerResp, requests,
                   outcome, response>>

Next ==
    \/ Launch
    \/ EndLoop
    \/ Respond
    \/ \E id \in PrinterIDs : Start(id)
    \/ \E id \in PrinterIDs : StateReturn(id)
    \/ \E id \in PrinterIDs : JobReturn(id)
    \/ \E id \in PrinterIDs : SpoolReturn(id)
    \/ \E id \in PrinterIDs : InventoryReturn(id)
    \/ \E id \in PrinterIDs : Send(id)

Spec == Init /\ [][Next]_vars

\* a handler whose client mapping lacks the client of some configured
\* printer: the case the `client, ok := h.octoprintClients[printer.ID]`
\* lookup of fetchPrinterStatus tests for
InitNoClient ==
    /\ \E ids \in (SUBSET PrinterIDs) \ {PrinterIDs} :
        octoprintClients = [id \in ids |-> NewHandler[id]]
    /\ answers = AnyAnswers
    /\ InitAlone

SpecNoClient == InitNoClient /\ [][Next]_vars

\* the handler's goroutine and the goroutine of every printer are scheduled
\* as long as they can take a step, and every upstream call returns: the
\* http.Client of NewClient has a timeout, after which Do returns an error
Fairness ==
    /\ WF_vars(Launch \/ EndLoop \/ Respond)
    /\ \A id \in PrinterIDs :
        /\ WF_vars(Start(id) \/ Send(id))
        /\ WF_vars(StateReturn(id))
        /\ WF_vars(JobReturn(id))
        /\ WF_vars(SpoolReturn(id))
        /\ WF_vars(InventoryReturn(id))

SpecFair == Spec /\ Fairness

\* an upstream that gives the same response to every request of a kind
Stub(state, job, spool, inventory) ==
    [state |-> {state}, job |-> {job}, spool |-> {spool}, inventory |-> {inventory}]

\* the flags of GET /api/printer with the given values, in a response
StateWith(printing, ready, error) ==
    OK(CHOOSE r \in PrinterResponses :
        r.State.Flags = [Printing |-> printing, Ready |-> ready, Error |-> error])

\* a job response for the file of the given path
JobWith(path) == OK(CHOOSE j \in JobResponses : j.Job.File.Path = path)

\* the spool-identifier response with the given fields
SpoolIDWith(success, spoolID) ==
    OK(CHOOSE r \in SpoolIDResponses : r.Success = success /\ r.SpoolID = spoolID)

\* the inventory's response with a spool
SpoolFound == OK(CHOOSE sp \in Spools : TRUE)

\* an HTTP 500 response
ServerError == [arrived |-> TRUE, code |-> 500, body |-> ErrorPage]

\* the upstreams of one printer in a stubbed world: unreachable; idle with
\* a spool; printing with a job and a spool; printing with a failing job
\* and spool plugin; in error without a spool; printing a file without a
\* path while the inventory answers garbage
Stubs ==
    {Stub(TransportFailure, ServerError, TransportFailure, TransportFailure),
     Stub(StateWith(FALSE, TRUE, FALSE), ServerError, SpoolIDWith(TRUE, "7"), SpoolFound),
     Stub(StateWith(TRUE, FALSE, FALSE), JobWith(<<"a", ".", "g", "c", "o", "d", "e">>),
          SpoolIDWith(TRUE, "7"), SpoolFound),
     Stub(StateWith(TRUE, TRUE, TRUE), ServerError, SpoolIDWith(FALSE, "7"), SpoolFound),
     Stub(StateWith(FALSE, FALSE, TRUE), ServerError, SpoolIDWith(TRUE, ""), SpoolFound),
     Stub(StateWith(TRUE, FALSE, FALSE), JobWith(<<>>), SpoolIDWith(TRUE, "7"),
          OK(Malformed))}

\* one poll against stubbed upstreams, whose state does not change
InitStubs ==
    /\ octoprintClients = NewHandler
    /\ answers \in [PrinterIDs -> Stubs]
    /\ InitAlone

SpecStubs == InitStubs /\ [][Next]_vars

\* ------------------------------------------------------------------------
\* The methods of octoprint.Client called on their own, on every response
\* of a range of status codes
\* ------------------------------------------------------------------------

\* status codes an http.Client hands to its caller: success codes, codes
\* of the 3xx class that are not followed as redirects, error codes
StatusCodes == {200, 201, 204, 300, 304, 400, 404, 500}

\* the well-formed bodies of the endpoint each method calls
BodiesOf ==
    [GetPrinterState |-> PrinterResponses, GetJob |-> JobResponses,
     GetCurrentSpool |-> SpoolIDResponses]

\* the calls of a method of the client, each with the response it receives
ClientCalls ==
    {[method |-> m, resp |-> r] :
        m \in DOMAIN BodiesOf,
        r \in {TransportFailure} \cup
               [arrived : {TRUE}, code : StatusCodes,
                body : {Malformed, ErrorPage} \cup UNION {BodiesOf[n] : n \in DOMAIN BodiesOf}]}

\* a call whose response body, if well-formed, is of the method's endpoint
WellTyped(call) ==
    \/ ~call.resp.arrived
    \/ call.resp.body \in {Malformed, ErrorPage} \cup BodiesOf[call.method]

\* the handler at rest, and a call about to be made
InitCall ==
    /\ octoprintClients = NewHandler
    /\ answers = AnyAnswers
    /\ InitPoll
    /\ other = Nil
    /\ sequel = FALSE
    /\ arg \in {Some(call) : call \in {c \in ClientCalls : WellTyped(c)}}
    /\ ret = Nil
    /\ thisPrinters = <<>>

\* the handler's variables, which a call made on its own leaves alone
handlerVars ==
    <<octoprintClients, hpc, launched, wg, statusChan, pc, status, printerResp,
      requests, outcome, response, answers, other, sequel, thisPrinters>>

\* the method named `method` returns
Call(method, result) ==
    /\ arg # Nil
    /\ ret = Nil
    /\ arg[1].method = method
    /\ ret' = Some(result)
    /\ UNCHANGED <<arg, handlerVars>>

CallGetPrinterState == Call("GetPrinterState", GetPrinterState(arg[1].resp))

CallGetJob == Call("GetJob", GetJob(arg[1].resp))

CallGetCurrentSpool == Call("GetCurrentSpool", GetCurrentSpool(arg[1].resp))

NextCall ==
    \/ CallGetPrinterState
    \/ CallGetJob
    \/ CallGetCurrentSpool

SpecCall == InitCall /\ [][NextCall]_vars

\* what a file name ends with
Extensions == {Gcode, Bgcode, <<".", "t", "x", "t">>}

\* the part of a job file path before its extensions
Stems == {<<>>, <<"a">>, <<"f", "/", "a">>}

\* the sequences of at most n extensions, each as one string
RECURSIVE ExtensionRuns(_)
ExtensionRuns(n) ==
    IF n = 0 THEN {<<>>}
    ELSE ExtensionRuns(n - 1) \cup
         {run \o ext : run \in ExtensionRuns(n - 1), ext \in Extensions}

\* job file paths: a stem followed by at most MaxExtensions extensions
Paths == {stem \o run : stem \in Stems, run \in ExtensionRuns(MaxExtensions)}

\* a client of the handler about to be asked for the thumbnail of a path
InitThumbnail ==
    /\ octoprintClients = NewHandler
    /\ answers = AnyAnswers
    /\ InitPoll
    /\ other = Nil
    /\ sequel = FALSE
    /\ arg \in {Some([method |-> "GetThumbnail", client |-> NewHandler[id], path |-> path]) :
                    id \in PrinterIDs, path \in Paths}
    /\ ret = Nil
    /\ thisPrinters = <<>>

CallGetThumbnail == Call("GetThumbnail", GetThumbnail(arg[1].client, arg[1].path))

SpecThumbnail == InitThumbnail /\ [][CallGetThumbnail]_vars

\* ------------------------------------------------------------------------
\* The dashboard of app.js: its list of printers, and fetchStatus, which
\* the page calls once a second
\* ------------------------------------------------------------------------

\* the PRINTERS constant of the page: handleDashboard marshals id, name and
\* octoprint_url of every configured printer, in configuration order
PRINTERS ==
    [i \in 1..Len(ConfigPrinters) |->
        [id |-> ConfigPrinters[i].ID, name |-> ConfigPrinters[i].Name,
         octoprint_url |-> ConfigPrinters[i].OctoPrintURL]]

\* an id no configured printer has
UnknownID == Len(ConfigPrinters) + 1

\* the records a response of /api/status may hold, as the page sees them:
\* of a configured printer or not, with one status or another
ResponseRecords ==
    [id : PrinterIDs \cup {UnknownID}, status : {"idle", "offline"}]

\* the sequences over S of length n at most
RECURSIVE SeqsUpTo(_, _)
SeqsUpTo(S, n) ==
    IF n = 0 THEN {<<>>}
    ELSE SeqsUpTo(S, n - 1) \cup
         {Append(q, x) : q \in {r \in SeqsUpTo(S, n - 1) : Len(r) = n - 1}, x \in S}

\* what `await response.json()` may give: an object without printers, or
\* with a list of records in any order, some missing, some twice
ResponseData ==
    {[printers |-> Nil]} \cup
    {[printers |-> Some(q)] : q \in SeqsUpTo(ResponseRecords, Len(PRINTERS))}

\* the ways the try block fails: fetch rejects, response.ok is false,
\* response.json() rejects
FetchFailures == {"fetch rejected", "not ok", "invalid json"}

\* data.printers.find(p => p.id === printer.id): the first record with the
\* id, or Nil for undefined
Find(records, id) ==
    LET matches == {j \in 1..Len(records) : records[j].id = id} IN
    IF matches = {} THEN Nil
    ELSE Some(records[CHOOSE j \in matches : \A k \in matches : j <= k])

\* an update that takes the response's list as it comes
MergeOverwriting(list, records) == records

\* this.printers.map(printer => find(...) || printer)
Merge(list, records) ==
    [i \in 1..Len(list) |->
        LET updated == Find(records, list[i].id) IN
        IF updated # Nil THEN updated[1] ELSE list[i]]

\* the page is loaded: init() sets this.printers = PRINTERS || []
InitDashboard ==
    /\ octoprintClients = NewHandler
    /\ answers = AnyAnswers
    /\ InitPoll
    /\ other = Nil
    /\ sequel = FALSE
    /\ arg = Nil
    /\ ret = Nil
    /\ thisPrinters = PRINTERS

\* what fetchStatus leaves alone
pageVars ==
    <<octoprintClients, hpc, launched, wg, statusChan, pc, status, printerResp,
      requests, outcome, response, answers, other, sequel>>

\* fetchStatus with a response that parses: merge if data.printers is there
FetchStatusOK ==
    /\ \E data \in ResponseData :
        /\ arg' = Some(data)
        /\ thisPrinters' = IF data.printers # Nil
                           THEN Merge(thisPrinters, data.printers[1])
                           ELSE thisPrinters
    /\ ret' = Some("ok")
    /\ UNCHANGED pageVars

\* fetchStatus whose try block throws: the catch logs and returns
FetchStatusFailed ==
    /\ \E failure \in FetchFailures :
        ret' = Some(failure)
    /\ arg' = Nil
    /\ UNCHANGED <<thisPrinters, pageVars>>

NextDashboard ==
    \/ FetchStatusOK
    \/ FetchStatusFailed

SpecDashboard == InitDashboard /\ [][NextDashboard]_vars

\* ------------------------------------------------------------------------
\* Two invocations of handleStatus.  net/http serves every request on a
\* goroutine of its own, so a second GET /api/status may arrive while the
\* first is being served or after it.  The variables above hold the
\* invocation in view; `other` holds the frame of the one out of view, and
\* a change of view stands for the scheduler going from the goroutines of
\* one invocation to those of the other.
\* ------------------------------------------------------------------------

\* the locals of the invocation in view, and of its goroutines
Frame ==
    [hpc |-> hpc, launched |-> launched, wg |-> wg, statusChan |-> statusChan,
     pc |-> pc, status |-> status, printerResp |-> printerResp,
     requests |-> requests, outcome |-> outcome, response |-> response,
     sequel |-> sequel]

\* a second request arrives: its invocation comes into view with fresh
\* locals, the first one goes out of view where it stands
Arrive ==
    /\ other = Nil
    /\ other' = Some(Frame)
    /\ sequel' = (response # Nil)
    /\ hpc' = "loop"
    /\ launched' = 0
    /\ wg' = 0
    /\ statusChan' = <<>>
    /\ pc' = [id \in PrinterIDs |-> "none"]
    /\ status' = [id \in PrinterIDs |-> Nil]
    /\ printerResp' = [id \in PrinterIDs |-> NotCalled]
    /\ requests' = [id \in PrinterIDs |-> [k \in Kinds |-> 0]]
    /\ outcome' = [id \in PrinterIDs |-> [k \in Kinds |-> "none"]]
    /\ response' = Nil
    /\ UNCHANGED <<octoprintClients, answers, arg, ret, thisPrinters>>

\* a result channel that is a field of the Handler, one for all invocations
OwnChanShared(frame) == statusChan

\* the channel of the invocation whose frame is given: statusChan is a local
\* of handleStatus, made anew by every invocation
OwnChan(frame) == frame.statusChan

\* the invocation out of view comes into view, with its locals as it left
\* them, and the one in view goes out of view
Switch ==
    /\ other # Nil
    /\ other' = Some(Frame)
    /\ LET frame == other[1] IN
        /\ hpc' = frame.hpc
        /\ launched' = frame.launched
        /\ wg' = frame.wg
        /\ statusChan' = OwnChan(frame)
        /\ pc' = frame.pc
        /\ status' = frame.status
        /\ printerResp' = frame.printerResp
        /\ requests' = frame.requests
        /\ outcome' = frame.outcome
        /\ response' = frame.response
        /\ sequel' = frame.sequel
    /\ UNCHANGED <<octoprintClients, answers, arg, ret, thisPrinters>>

NextPolls ==
    \/ Next
    \/ Arrive
    \/ Switch

\* upstreams whose state does not change between polls: the first printer
\* is printing, with a job and a spool, the others are unreachable
StubWorld ==
    [id \in PrinterIDs |->
        IF id = ConfigPrinters[1].ID
        THEN Stub(StateWith(TRUE, FALSE, FALSE),
                  JobWith(<<"a", ".", "g", "c", "o", "d", "e">>),
                  SpoolIDWith(TRUE, "7"), SpoolFound)
        ELSE Stub(TransportFailure, ServerError, TransportFailure, TransportFailure)]

InitPolls ==
    /\ octoprintClients = NewHandler
    /\ answers = StubWorld
    /\ InitAlone

SpecPolls == InitPolls /\ [][NextPolls]_vars

\* ------------------------------------------------------------------------
\* Properties
\* ------------------------------------------------------------------------

\* the poll has sent its response
Responded == response # Nil

\* the snapshot of the response: the value of its "printers" key
Snapshot == response[1].printers

\* the positions of the snapshot holding a record of printer id
PositionsOf(id) == {j \in 1..Len(Snapshot) : Snapshot[j].ID = id}

\* C1: the snapshot of a poll has exactly N records, exactly one for each
\* configured printer id, whatever the outcomes of the upstream calls.
C1_OneRecordPerPrinter ==
    Responded =>
        /\ Len(Snapshot) = Len(ConfigPrinters)
        /\ \A i \in 1..Len(ConfigPrinters) :
            Cardinality(PositionsOf(ConfigPrinters[i].ID)) = 1

\* a poll has responded with one printer's state fetch failed and another's
\* succeeded
C1_Witness ==
    /\ Responded
    /\ \E id \in PrinterIDs : outcome[id].state = "failed"
    /\ \E id \in PrinterIDs : outcome[id].state = "ok"

\* C2: in every snapshot, record i belongs to the i-th configured printer,
\* whatever the order in which the pipelines complete.
C2_ConfigurationOrder ==
    Responded =>
        \A i \in 1..Len(Snapshot) : Snapshot[i].ID = ConfigPrinters[i].ID

\* C3: the response is written only after every pipeline of the poll has
\* finished and delivered its record: no state has the response sent while
\* a pipeline is still running.
C3_NoPartialSnapshot ==
    Responded =>
        \A id \in PrinterIDs :
            /\ pc[id] = "done"
            /\ \E j \in 1..Len(Snapshot) : Snapshot[j] = status[id]

\* the handler has responded after waiting for goroutines that returned at
\* different points of the pipeline
C3_Witness ==
    /\ hpc = "done"
    /\ Responded
    /\ \E id \in PrinterIDs : requests[id].inventory = 1
    /\ \E id \in PrinterIDs : requests[id].spool = 0

\* the status the classification policy gives to a set of flags
PriorityStatus(flags) ==
    CASE flags.Printing -> "printing"
      [] ~flags.Printing /\ flags.Ready -> "idle"
      [] ~flags.Printing /\ ~flags.Ready /\ flags.Error -> "error"
      [] OTHER -> "offline"

\* C4: when the state fetch succeeded, the record's status follows the
\* fixed priority printing, ready (idle), error, else offline, for every
\* combination of the three flags; fetchPrinterStatus keeps that status up
\* to and including the record it returns.
C4_ClassificationPriority ==
    [][\A id \in PrinterIDs :
        printerResp[id] # NotCalled =>
            /\ status[id].Status = PriorityStatus(printerResp[id].State.Flags)
            /\ status'[id].Status = PriorityStatus(printerResp[id].State.Flags)
            /\ (printerResp[id].State.Flags.Printing /\ printerResp[id].State.Flags.Error
                    => status'[id].Status = "printing")]_vars

\* a printer flagged both printing and error has been classified
C4_Witness ==
    \E id \in PrinterIDs :
        /\ printerResp[id] # NotCalled
        /\ printerResp[id].State.Flags.Printing
        /\ printerResp[id].State.Flags.Error
        /\ status[id].Status = "printing"

\* C5: if the state fetch of a printer fails, its record has status
\* "offline", a non-empty error message, no progress block and no
\* temperature block.
C5_StateFailureRecord ==
    \A id \in PrinterIDs :
        outcome[id].state = "failed" =>
            /\ status[id].Status = "offline"
            /\ status[id].Error # EmptyString
            /\ status[id].Progress = Nil
            /\ status[id].Temperatures = Nil
            /\ Responded => \A j \in PositionsOf(id) : Snapshot[j] = status[id]

\* a snapshot holds the record of a printer whose state fetch failed
C5_Witness ==
    /\ Responded
    /\ \E id \in PrinterIDs :
        /\ outcome[id].state = "failed"
        /\ \E j \in 1..Len(Snapshot) : Snapshot[j].ID = id /\ Snapshot[j].Status = "offline"

\* C6: if the state fetch of a printer fails, its pipeline goes straight to
\* its final record: no job, spool-identifier or inventory request is ever
\* issued for that printer in that poll.
C6_StateFailureShortCircuits ==
    \A id \in PrinterIDs :
        outcome[id].state = "failed" =>
            /\ pc[id] \in {"send", "done"}
            /\ requests[id].job = 0
            /\ requests[id].spool = 0
            /\ requests[id].inventory = 0

\* a pipeline whose state fetch failed has run to its end
C6_Witness ==
    \E id \in PrinterIDs :
        /\ outcome[id].state = "failed"
        /\ pc[id] = "done"
        /\ requests[id].state = 1

\* the printers of the configuration that have no client in the mapping
Clientless == PrinterIDs \ DOMAIN octoprintClients

ExpectedTemperatures(r) ==
    Some([BedActual |-> r.Temperature.Bed.Actual,
          BedTarget |-> r.Temperature.Bed.Target,
          HotendActual |-> r.Temperature.Tool0.Actual,
          HotendTarget |-> r.Temperature.Tool0.Target])

\* what C8 asks of a record of printer id
C8_Record(id, rec) ==
    /\ rec.Status = "printing"
    /\ rec.Progress = Nil
    /\ rec.Temperatures # Nil
    /\ printerResp[id] # NotCalled =>
        rec.Temperatures = ExpectedTemperatures(printerResp[id])

\* C8: if a printer is classified "printing" and its job fetch fails, the
\* pipeline goes on (the spool-identifier request is issued) and the
\* record, up to and including the one returned, has status "printing",
\* the temperature block with the values of the state fetch, and no
\* progress block.
C8_JobFailureKeepsPrinting ==
    [][\A id \in PrinterIDs :
        outcome[id].job = "failed" =>
            /\ requests[id].spool = 1
            /\ C8_Record(id, status[id])
            /\ C8_Record(id, status'[id])]_vars

\* a pipeline whose job fetch failed has delivered its record
C8_Witness ==
    /\ Responded
    /\ \E id \in PrinterIDs :
        /\ outcome[id].job = "failed"
        /\ \E j \in PositionsOf(id) : Snapshot[j].Status = "printing"

\* the record without its spool block
WithoutSpool(rec) == [rec EXCEPT !.CurrentSpool = Nil]

\* C9: the spool steps change no field of the record other than the spool
\* block, whether they succeed or fail, and when the spool-identifier fetch
\* or the inventory lookup fails the record has no spool block: every other
\* field is what it is when the spool steps succeed.
C9_SpoolFailureFrame ==
    [][\A id \in PrinterIDs :
        pc[id] \in {"spool", "inventory"} =>
            /\ WithoutSpool(status'[id]) = WithoutSpool(status[id])
            /\ (outcome'[id].spool = "failed" \/ outcome'[id].inventory = "failed") =>
                /\ status'[id].CurrentSpool = Nil
                /\ pc'[id] = "send"]_vars

\* records of a printing printer with its progress block have been returned
\* after a failed spool-identifier fetch and after a failed inventory lookup
C9_Witness ==
    /\ \E id \in PrinterIDs :
        /\ pc[id] = "done"
        /\ outcome[id].spool = "failed"
        /\ status[id].Progress # Nil
    /\ \E id \in PrinterIDs :
        /\ pc[id] = "done"
        /\ outcome[id].inventory = "failed"
        /\ status[id].Temperatures # Nil

\* C10: a job request is issued for a printer only if its state fetch
\* succeeded in this poll and its classified status is "printing"; for a
\* printer classified idle, error or offline none is ever issued.
C10_JobOnlyWhenPrinting ==
    \A id \in PrinterIDs :
        /\ requests[id].job > 0 =>
            /\ outcome[id].state = "ok"
            /\ status[id].Status = "printing"
        /\ (pc[id] \notin {"none", "start"} /\ status[id].Status \in {"idle", "error", "offline"})
            => requests[id].job = 0

\* one pipeline has issued its job request and another, classified idle,
\* has run to its end without one
C10_Witness ==
    /\ \E id \in PrinterIDs : requests[id].job = 1 /\ status[id].Status = "printing"
    /\ \E id \in PrinterIDs :
        /\ pc[id] = "done"
        /\ outcome[id].state = "ok"
        /\ status[id].Status = "idle"
        /\ requests[id].job = 0

\* the pipeline of printer id is past the "If printing" block
PastJob(id) == pc[id] \in {"spool", "inventory", "send", "done"}

\* C11: in every pipeline whose state fetch succeeded, the spool-identifier
\* request is issued once the job block is behind it, whatever the
\* classified status and whether the job fetch was skipped, succeeded or
\* failed.
C11_SpoolAlwaysAttempted ==
    \A id \in PrinterIDs :
        (outcome[id].state = "ok" /\ PastJob(id)) => requests[id].spool = 1

\* every pipeline has delivered its record, and the spool identifier was
\* requested both for a printing printer whose job fetch failed and for a
\* printer that is not printing, whose job fetch was skipped
C11_Witness ==
    /\ \A id \in PrinterIDs : pc[id] = "done"
    /\ \E id \in PrinterIDs :
        /\ outcome[id].state = "ok"
        /\ status[id].Status = "printing"
        /\ outcome[id].job = "failed"
        /\ requests[id].spool = 1
    /\ \E id \in PrinterIDs :
        /\ outcome[id].state = "ok"
        /\ status[id].Status \in {"idle", "error", "offline"}
        /\ outcome[id].job = "none"
        /\ requests[id].spool = 1

\* the four values of the status field
StatusValues == {"idle", "printing", "error", "offline"}

\* every record a pipeline holds, every record queued on the channel and
\* every record of the snapshot
Records ==
    {status[id] : id \in {i \in PrinterIDs : status[i] # Nil}}
    \cup {statusChan[j] : j \in 1..Len(statusChan)}
    \cup (IF Responded THEN {Snapshot[j] : j \in 1..Len(Snapshot)} ELSE {})

\* C13: in every record of every snapshot, and in every record on its way
\* there, the status field is one of "idle", "printing", "error", "offline":
\* this includes the records of the missing-client path and of a failed
\* state fetch.
C13_StatusIsOneOfFour ==
    \A rec \in Records : rec.Status \in StatusValues

\* a snapshot holds the record of a printer without a client and the record
\* of a printer whose state fetch failed
C13_Witness ==
    /\ Responded
    /\ \E j \in 1..Len(Snapshot) :
        /\ Snapshot[j].ID \notin DOMAIN octoprintClients
        /\ Snapshot[j].Error = <<"No client configured">>
    /\ \E j \in 1..Len(Snapshot) :
        /\ outcome[Snapshot[j].ID].state = "failed"
        /\ Snapshot[j].Error # EmptyString

\* the upstream calls of the poll that failed, as pairs of printer and call
FailedCalls == {c \in PrinterIDs \X Kinds : outcome[c[1]][c[2]] = "failed"}

\* C16: whatever upstream calls of whatever printers failed, by transport,
\* by an error status or by an undecodable body, the response of the poll
\* has top-level status "ok" and carries the list of printer records.
C16_PollNeverFails ==
    Responded =>
        /\ response[1].status = "ok"
        /\ DOMAIN response[1] = {"status", "printers"}
        /\ Len(response[1].printers) = Len(ConfigPrinters)

\* a poll has responded after a state fetch, a job fetch and an inventory
\* lookup of its printers failed
C16_Witness ==
    /\ Responded
    /\ {"state", "job", "inventory"} \subseteq {c[2] : c \in FailedCalls}

\* C18: the pipelines of a poll run in parallel: the poll waits only after
\* all N pipelines are launched, and neither the launch of the next
\* pipeline nor the first step of a launched one waits for any other
\* pipeline, whatever position the others are at.
C18_PipelinesRunInParallel ==
    /\ hpc \in {"wait", "done"} =>
        /\ launched = Len(ConfigPrinters)
        /\ \A id \in PrinterIDs : pc[id] # "none"
    /\ (hpc = "loop" /\ launched < Len(ConfigPrinters)) => ENABLED Launch
    /\ \A id \in PrinterIDs : pc[id] = "start" => ENABLED Start(id)

\* all N pipelines are waiting on an upstream response at the same time
C18_Witness ==
    /\ hpc = "wait"
    /\ \A id \in PrinterIDs : pc[id] \in Kinds

\* the pipelines that have handed their record over
Delivered == {id \in PrinterIDs : pc[id] = "done"}

\* C19: a pipeline holding its finished record can always send it at once:
\* the channel, of capacity N, holds at most one record per delivered
\* pipeline and has room left whenever a pipeline is about to send, so a
\* pipeline waits only on its upstream calls, and as long as the poll has
\* not responded some step of it can be taken.
C19_HandOffNeverBlocks ==
    /\ \A id \in PrinterIDs : pc[id] = "send" => ENABLED Send(id)
    /\ Len(statusChan) <= Cardinality(Delivered)
    /\ Cardinality(Delivered) <= ChanCap
    /\ ~Responded => ENABLED Next

\* a pipeline is about to send its record while the records of all the
\* other pipelines are queued and the collector has not begun to read
C19_Witness ==
    /\ ~Responded
    /\ \E id \in PrinterIDs : pc[id] = "send"
    /\ Len(statusChan) = Len(ConfigPrinters) - 1

\* C20: within one poll and for one printer at most one state request, one
\* job request, one spool-identifier request and one inventory request are
\* issued, whatever the outcomes of those requests.
C20_NoRetries ==
    \A id \in PrinterIDs : \A k \in Kinds : requests[id][k] <= 1

\* every pipeline has delivered its record, one after its state request
\* failed and one after its job request and its inventory request failed,
\* each of these requests having been issued once
C20_Witness ==
    /\ \A id \in PrinterIDs : pc[id] = "done"
    /\ \E id \in PrinterIDs :
        outcome[id].state = "failed" /\ requests[id].state = 1
    /\ \E id \in PrinterIDs :
        /\ outcome[id].job = "failed" /\ requests[id].job = 1
        /\ outcome[id].inventory = "failed" /\ requests[id].inventory = 1
        /\ requests[id].spool = 1

\* every pipeline has reached its final record and handed it over, and the
\* poll has sent a response that holds a record of every printer
PollComplete ==
    /\ \A id \in PrinterIDs : pc[id] = "done" /\ status[id] # Nil
    /\ Responded
    /\ \A id \in PrinterIDs : PositionsOf(id) # {}

\* C12: provided every upstream call returns, every pipeline eventually
\* reaches its final record and the poll eventually sends its response,
\* with a record of every printer in it, whatever the upstream outcomes.
C12_EveryPollCompletes == <>PollComplete

\* a poll is complete although a state fetch of one printer and the
\* spool-identifier fetch of another failed
C12_Witness ==
    /\ PollComplete
    /\ \E id \in PrinterIDs : outcome[id].state = "failed"
    /\ \E id \in PrinterIDs : outcome[id].spool = "failed"

\* the response a stubbed upstream gives
TheAnswer(S) == CHOOSE resp \in S : TRUE

\* the record of printer id as a function of the entry of id in the
\* configuration and of the responses of id's own upstreams, nothing else
OwnRecord(id) ==
    LET printer == ConfigPrinters[CHOOSE i \in 1..Len(ConfigPrinters) :
                                      ConfigPrinters[i].ID = id]
        client == NewClient(printer.OctoPrintURL)
        new == NewStatus(printer)
        state == GetPrinterState(TheAnswer(answers[id].state))
        job == GetJob(TheAnswer(answers[id].job))
        spoolID == GetCurrentSpool(TheAnswer(answers[id].spool))
        spool == GetSpool(TheAnswer(answers[id].inventory))
        classified == WithState(new, state.val)
        afterJob == IF WantsJob(classified) THEN WithJob(classified, client, job)
                    ELSE classified
    IN  IF state.err # NoError THEN StateFailedStatus(new, state.err)
        ELSE IF WantsSpool(spoolID) THEN WithSpool(afterJob, spool)
        ELSE afterJob

\* some step of the pipeline of printer id can be taken
CanProceed(id) ==
    ENABLED (\/ Start(id) \/ StateReturn(id) \/ JobReturn(id)
             \/ SpoolReturn(id) \/ InventoryReturn(id) \/ Send(id))

\* C14: the record a poll produces for printer p is a function of p's
\* configuration and of the outcomes of p's own upstream calls: whatever the
\* other printers' upstreams answer and however the pipelines are
\* scheduled, the record p's pipeline returns and the snapshot's record of
\* p are that function's value, and p's pipeline, once launched, can take
\* its next step whatever has become of the other pipelines.
C14_RecordDependsOnOwnPrinterOnly ==
    \A id \in PrinterIDs :
        /\ pc[id] \in {"send", "done"} => status[id] = OwnRecord(id)
        /\ Responded => \A j \in PositionsOf(id) : Snapshot[j] = OwnRecord(id)
        /\ pc[id] \notin {"none", "done"} => CanProceed(id)

\* a snapshot holds the full record of a printing printer next to the
\* record of a sibling whose state fetch failed, returned before it
C14_Witness ==
    /\ Responded
    /\ \E i \in 1..Len(Snapshot) : \E j \in 1..Len(Snapshot) :
        /\ i < j
        /\ Snapshot[i].Error # EmptyString
        /\ outcome[Snapshot[i].ID].state = "failed"
        /\ Snapshot[j].Progress # Nil
        /\ Snapshot[j].CurrentSpool # Nil
        /\ Snapshot[j].ThumbnailURL # EmptyString

\* the invocation in view was made after the other one had responded, and
\* has responded too
BothRespondedInTurn == Responded /\ sequel /\ other # Nil

\* C15: two polls made one after the other against upstreams whose state
\* is the same return the same snapshot: the same records in the same
\* sequence, however the pipelines of each poll are scheduled.
C15_SuccessivePollsAgree ==
    BothRespondedInTurn => Snapshot = other[1].response[1].printers

\* the records of a snapshot, without their sequence
RecordsOf(printers) == {printers[j] : j \in 1..Len(printers)}

\* the two polls made in turn return the same records, in whatever sequence
SuccessivePollsSameRecords ==
    BothRespondedInTurn =>
        RecordsOf(Snapshot) = RecordsOf(other[1].response[1].printers)

\* the records on the channel of the invocation in view are those its own
\* pipelines have sent, one per delivered pipeline, and its snapshot holds
\* exactly the N records its own pipelines returned
OwnRecordsOnly ==
    /\ ~Responded =>
        /\ Len(statusChan) = Cardinality(Delivered)
        /\ \A j \in 1..Len(statusChan) :
            /\ statusChan[j].ID \in Delivered
            /\ statusChan[j] = status[statusChan[j].ID]
    /\ Responded =>
        /\ Len(Snapshot) = Len(ConfigPrinters)
        /\ \A id \in PrinterIDs :
            /\ Cardinality(PositionsOf(id)) = 1
            /\ \A j \in PositionsOf(id) : Snapshot[j] = status[id]

\* C17: when invocations of the poll overlap, each is independent: the
\* channel and the snapshot of an invocation hold only the records of its
\* own pipelines, exactly N in the snapshot; a step of one invocation
\* changes nothing of the other, which finds its locals as it left them;
\* and the client mapping is never modified after construction.
C17_InvocationsAreIndependent ==
    [][/\ OwnRecordsOnly
       /\ OwnRecordsOnly'
       /\ Next => other' = other
       /\ Switch => /\ Frame' = other[1]
                     /\ other'[1] = Frame
       /\ octoprintClients' = octoprintClients
       /\ octoprintClients = NewHandler]_vars

\* two invocations that overlapped in time have both responded: the second
\* arrived before the first had responded
C17_Witness ==
    /\ Responded
    /\ other # Nil
    /\ other[1].response # Nil
    /\ ~sequel
    /\ ~other[1].sequel

\* the call under study has returned
Returns == arg # Nil /\ ret # Nil

\* the response of the call has a status outside the 2xx range
NonSuccessStatus == arg[1].resp.arrived /\ arg[1].resp.code \notin 200..299

\* the error doRequest makes of a status code and a body
UpstreamError(resp) == <<"HTTP ", resp.code, ": ", resp.body>>

\* C21: a state, job or spool-identifier call whose HTTP response has a
\* status outside the 2xx range fails with the error that carries the
\* status code and the body; the response is never decoded and returned as
\* a success.
C21_NonSuccessStatusFails ==
    (Returns /\ NonSuccessStatus) => ret[1].err = UpstreamError(arg[1].resp)

\* a call whose response has a status of 400 or above fails with the error
\* that carries the status code and the body
StatusFrom400Fails ==
    (Returns /\ arg[1].resp.arrived /\ arg[1].resp.code >= 400) =>
        ret[1].err = UpstreamError(arg[1].resp)

\* the path without its final extension when that is ".gcode" or ".bgcode",
\* else the path
Stem(path) ==
    IF HasSuffix(path, Gcode) THEN SubSeq(path, 1, Len(path) - Len(Gcode))
    ELSE IF HasSuffix(path, Bgcode) THEN SubSeq(path, 1, Len(path) - Len(Bgcode))
    ELSE path

\* C22: GetThumbnail gives the empty URL for the empty path, and for any
\* other path base + "/plugin/prusaslicerthumbnails/thumbnail/" + stem +
\* ".png", the stem being the path without its final extension when that is
\* ".gcode" or ".bgcode" and the path itself otherwise: nothing but that one
\* trailing extension is removed.
C22_ThumbnailOfPath ==
    Returns =>
        ret[1] = IF arg[1].path = EmptyString THEN EmptyString
                 ELSE arg[1].client.baseURL
                        \o <<"/plugin/prusaslicerthumbnails/thumbnail/">>
                        \o Stem(arg[1].path) \o <<".", "p", "n", "g">>

\* GetThumbnail agrees with that on every path that does not end with
\* ".bgcode.gcode"
ThumbnailOfOtherPaths ==
    (Returns /\ ~HasSuffix(arg[1].path, Bgcode \o Gcode)) => C22_ThumbnailOfPath

\* the requests of the pipeline of printer id that were issued and have not
\* returned
InFlight(id) ==
    {k \in Kinds : requests[id][k] > 0 /\ outcome[id][k] = "none"}

\* the call of kind k was issued and has returned
Over(id, k) == requests[id][k] > 0 /\ outcome[id][k] # "none"

\* the order of the upstream calls; a call left out is skipped
CallOrder == <<"state", "job", "spool", "inventory">>

\* C23: within one pipeline the upstream calls are made in the order
\* state, job (if any), spool identifier, inventory (if any), each issued
\* only after the previous one has returned: at most one request of the
\* pipeline is in flight, the one the pipeline is waiting on, and when a
\* call is issued every call before it in the order was either not made or
\* has returned, and none after it was made.
C23_CallsAreSequential ==
    \A id \in PrinterIDs :
        /\ InFlight(id) = IF pc[id] \in Kinds THEN {pc[id]} ELSE {}
        /\ \A i \in 1..Len(CallOrder) : \A j \in 1..Len(CallOrder) :
            (i < j /\ requests[id][CallOrder[j]] > 0) =>
                \/ requests[id][CallOrder[i]] = 0
                \/ Over(id, CallOrder[i])
        /\ requests[id].job > 0 \/ requests[id].spool > 0 => Over(id, "state")
        /\ requests[id].inventory > 0 => Over(id, "spool")

\* a pipeline is waiting on its inventory lookup after its state, job and
\* spool-identifier calls returned, in that order
C23_Witness ==
    \E id \in PrinterIDs :
        /\ pc[id] = "inventory"
        /\ InFlight(id) = {"inventory"}
        /\ Over(id, "state") /\ Over(id, "job") /\ Over(id, "spool")

\* the record's error field has a reason: the state fetch of its printer
\* failed, or its printer has no client
ErrorExplained(rec) ==
    rec.Error # EmptyString =>
        \/ outcome[rec.ID].state = "failed"
        \/ rec.ID \in Clientless

\* C24: in every record the error field is non-empty only if the state
\* fetch failed or the printer has no client: a failure of the job fetch,
\* of the spool-identifier fetch or of the inventory lookup never sets it,
\* so every record with status "printing", "idle" or "error" has an empty
\* error field.
C24_OptionalFailuresAreSilent ==
    \A rec \in Records :
        /\ ErrorExplained(rec)
        /\ rec.Status \in {"printing", "idle", "error"} => rec.Error = EmptyString

\* a snapshot holds the record, its error field empty, of a printer whose
\* job fetch and inventory lookup failed, and of one without a client
C24_Witness ==
    /\ Responded
    /\ \E j \in 1..Len(Snapshot) :
        /\ outcome[Snapshot[j].ID].job = "failed"
        /\ outcome[Snapshot[j].ID].inventory = "failed"
        /\ Snapshot[j].Error = EmptyString
    /\ \E j \in 1..Len(Snapshot) :
        /\ Snapshot[j].ID \in Clientless
        /\ Snapshot[j].Error # EmptyString

\* what GetCurrentSpool returns for printer id from its stubbed upstream
StubbedSpoolID(id) == GetCurrentSpool(TheAnswer(answers[id].spool))

\* the identifier fetch of printer id succeeds with a non-empty identifier
HasSpoolID(id) == StubbedSpoolID(id).err = NoError /\ StubbedSpoolID(id).val # ""

\* C26: the inventory lookup is issued if and only if the spool-identifier
\* fetch succeeded and returned a non-empty identifier, and then at once
\* and once; when the identifier is empty or its fetch failed, no inventory
\* request is made and the pipeline returns a record without spool block;
\* the spool block is present exactly when the inventory lookup returned a
\* spool.
C26_InventoryIffSpoolID ==
    \A id \in PrinterIDs :
        /\ requests[id].inventory > 0 => Over(id, "spool") /\ HasSpoolID(id)
        /\ Over(id, "spool") /\ HasSpoolID(id) => requests[id].inventory = 1
        /\ Over(id, "spool") /\ ~HasSpoolID(id) =>
            /\ pc[id] \in {"send", "done"}
            /\ status[id].CurrentSpool = Nil
        /\ status[id] # Nil =>
            (status[id].CurrentSpool # Nil <=> outcome[id].inventory = "ok")

\* every pipeline has delivered its record: one with a spool block after
\* its one inventory request, one without, its printer having reported an
\* empty identifier, with no inventory request
C26_Witness ==
    /\ \A id \in PrinterIDs : pc[id] = "done"
    /\ \E id \in PrinterIDs :
        /\ status[id].CurrentSpool # Nil
        /\ requests[id].inventory = 1
    /\ \E id \in PrinterIDs :
        /\ outcome[id].spool = "ok"
        /\ StubbedSpoolID(id).val = ""
        /\ requests[id].inventory = 0
        /\ status[id].CurrentSpool = Nil

\* what GetJob returns for printer id from its stubbed upstream
StubbedJob(id) == GetJob(TheAnswer(answers[id].job))

\* the blocks of the record agree with one another
BlocksConsistent(rec) ==
    /\ rec.Progress # Nil =>
        /\ rec.Status = "printing"
        /\ rec.Temperatures # Nil
    /\ rec.ThumbnailURL # EmptyString =>
        /\ rec.Progress # Nil
        /\ StubbedJob(rec.ID).err = NoError
        /\ StubbedJob(rec.ID).val.Job.File.Path # EmptyString
    /\ (rec.Status = "offline" /\ rec.Error # EmptyString) =>
        /\ rec.Progress = Nil
        /\ rec.Temperatures = Nil
        /\ rec.CurrentSpool = Nil
        /\ rec.ThumbnailURL = EmptyString

\* C27: in every record a progress block is present only if the status is
\* "printing" and the temperature block is present too; a non-empty
\* thumbnail URL only if the progress block is present and the job's file
\* path is non-empty; and a record with status "offline" and a non-empty
\* error has no progress, temperature, spool or thumbnail data.
C27_BlocksAreConsistent ==
    \A rec \in Records : BlocksConsistent(rec)

\* a snapshot holds a record with progress and temperatures whose job file
\* has no path, hence without thumbnail, next to an offline record with an
\* error
C27_Witness ==
    /\ Responded
    /\ \E j \in 1..Len(Snapshot) :
        /\ Snapshot[j].Progress # Nil
        /\ Snapshot[j].ThumbnailURL = EmptyString
        /\ Snapshot[j].Temperatures # Nil
    /\ \E j \in 1..Len(Snapshot) :
        /\ Snapshot[j].Status = "offline"
        /\ Snapshot[j].Error # EmptyString

\* the spool plugin of printer id answers the HTTP call and refuses the
\* command: a decoded response with success = false
Refuses(id) ==
    LET resp == TheAnswer(answers[id].spool) IN
    /\ resp.arrived
    /\ resp.code = 200
    /\ resp.body \in SpoolIDResponses
    /\ ~resp.body.Success

\* C28: when the HTTP call of GetCurrentSpool succeeds and the decoded
\* response has success = false, GetCurrentSpool returns an error and the
\* empty identifier, never the spool_id of that response; the pipeline then
\* makes no inventory lookup and returns a record without spool block.
C28_RefusalIsFailure ==
    \A id \in PrinterIDs :
        Refuses(id) =>
            /\ StubbedSpoolID(id).err # NoError
            /\ StubbedSpoolID(id).val = ""
            /\ Over(id, "spool") =>
                /\ outcome[id].spool = "failed"
                /\ requests[id].inventory = 0
                /\ pc[id] \in {"send", "done"}
                /\ status[id].CurrentSpool = Nil

\* the record of a printer whose spool plugin refused, with a spool_id in
\* its response, is in the snapshot
C28_Witness ==
    /\ Responded
    /\ \E j \in 1..Len(Snapshot) :
        /\ Refuses(Snapshot[j].ID)
        /\ TheAnswer(answers[Snapshot[j].ID].spool).body.SpoolID # ""
        /\ Over(Snapshot[j].ID, "spool")
        /\ Snapshot[j].CurrentSpool = Nil

\* the ids of a list of records, in sequence
IDsOf(list) == [i \in 1..Len(list) |-> list[i].id]

\* the records of the response just received, <<>> if it had none or the
\* poll failed
Received(data) ==
    IF data = Nil \/ data[1].printers = Nil THEN <<>> ELSE data[1].printers[1]

\* C25: fetchStatus merges by printer id and keeps the dashboard's list
\* stable: after every poll, successful or failed, the list has the ids of
\* the list the page was initialised with, in the same sequence; an entry
\* is replaced only by a record of the response with its id, and is what it
\* was when the response has none; a failed poll changes nothing; all this
\* whatever the order of the records in the response.
C25_MergeKeepsListStable ==
    [][/\ IDsOf(thisPrinters) = IDsOf(PRINTERS)
       /\ IDsOf(thisPrinters') = IDsOf(PRINTERS)
       /\ ret' \in {Some(failure) : failure \in FetchFailures} =>
            thisPrinters' = thisPrinters
       /\ \A i \in 1..Len(thisPrinters) :
            LET records == Received(arg')
                same == {j \in 1..Len(records) : records[j].id = thisPrinters[i].id}
            IN  /\ same = {} => thisPrinters'[i] = thisPrinters[i]
                /\ same # {} => \E j \in same : thisPrinters'[i] = records[j]]_vars

\* the dashboard has merged a response that lists the records of all its
\* printers in another order than its own
C25_Witness ==
    /\ ret = Some("ok")
    /\ Len(Received(arg)) = Len(PRINTERS)
    /\ \A i \in 1..Len(PRINTERS) : \E j \in 1..Len(PRINTERS) :
        Received(arg)[j] = thisPrinters[i]
    /\ IDsOf(Received(arg)) # IDsOf(PRINTERS)
    /\ IDsOf(thisPrinters) = IDsOf(PRINTERS)

====
